---------------------------- MODULE Spec2Model ----------------------------
(***************************************************************************)
(* A model of the entity-component-system core of ecs-ninjelda             *)
(* (src/code/ecs/ecs.py): the Scene's entity index, type index, component  *)
(* back-references and priority schedule, and the operations on them.      *)
(***************************************************************************)
EXTENDS Integers, Sequences, FiniteSets, TLC

(***************************************************************************)
(* Bounds of the model.                                                    *)
(***************************************************************************)
\* Entity identifiers are 1..MaxEntities (uuid4 values, renamed).
MaxEntities == 2
\* The longest argument list (components, types, systems) given to a call.
MaxArgs == 2

EntityIds == 1..MaxEntities
\* The value None of a component's entity back-reference.
NoEntity == 0

\* Component classes, and for each the sibling classes its __init_entity__
\* hook looks up with scene.get_component(self.entity, ...).
CompClasses == {"Sprite", "Anim"}
Needs(T) == IF T = "Anim" THEN {"Sprite"} ELSE {}

\* Component instances and their concrete types.
Comps == {"s1", "s2", "a1"}
TypeOf(c) ==
    IF c = "a1" THEN "Anim"
    ELSE IF c = "p1" THEN "Position"
    ELSE IF c = "v1" THEN "Velocity"
    ELSE IF c = "pl1" THEN "PlayerComponent"
    ELSE "Sprite"

\* A component whose concrete class has a base class that is a component
\* class too: class PlayerComponent(EventComponent).
SubComps == {"pl1"}
Bases(T) == IF T = "PlayerComponent" THEN {"EventComponent"} ELSE {}
IsInstance(c, T) == TypeOf(c) = T \/ T \in Bases(TypeOf(c))

\* The data components of the movement scenario: a Position and a Velocity.
MoveComps == {"p1", "v1"}

\* System classes and the priorities given to add_system / add_systems.  System
\* has the metaclass Singleton: a class has one instance, and names it.
SystemClasses == {"S1", "S2"}
Priorities == {-1, 0, 2}
\* An add_systems item of length 1 carries no priority.
NoPrio == 99

VARIABLES
    entities,    \* Scene._entities: dict in insertion order, a sequence of [id, comps]
    components,  \* Scene._components: defaultdict type -> set of entities
    backref,     \* per component instance: [bound, entity] (Component.scene / .entity)
    issued,      \* the identifiers Entity() has returned so far
    systems,     \* Scene._systems: list of [prio, bucket], bucket the dict's keys in order
    priorities,  \* Scene._priorities
    trace,       \* the last Scene.update call: the systems invoked, and its outcome
    instances,   \* Singleton._instances: class -> its cached instance
    made,        \* per Singleton class: the number of instances constructed so far
    attr,        \* per constructed instance: the value of its attribute
    held,        \* the references construction calls have returned to the program
    lastCall,    \* the last construction call or attribute assignment, and its outcome
    value,       \* per data component instance: the integer it holds
    origin,      \* the integer the Position component held at first
    ticks,       \* the number of Scene.update calls made in the movement scenario
    player,      \* the PlayerComponent: its timers, facing, held keys and direction
    anim,        \* the player's AnimationComponent: curr_anim, index, duration, loop
    attacks      \* the attacks started: whether one was, the need of PlayerSystem
                 \* updates it set, and the updates counted since

vars == <<entities, components, backref, issued, systems, priorities, trace,
          instances, made, attr, held, lastCall, value, origin, ticks,
          player, anim, attacks>>
sceneVars == <<entities, components, backref, issued>>
schedVars == <<systems, priorities, trace>>
singletonVars == <<instances, made, attr, held, lastCall>>
moveVars == <<value, origin, ticks>>
gameVars == <<player, anim, attacks>>

\* The player's components as constructed (PlayerComponent's and
\* AnimationComponent's field defaults), in a Scene that has no player.
NoPlayer ==
    /\ player = [attack_time |-> 0, attack_cd |-> 0, attacking |-> 0, resting |-> 0,
                 facing |-> "down", move_stack |-> <<>>, moving |-> [x |-> 0, y |-> 0]]
    /\ anim = [curr_anim |-> <<"", "down">>, index |-> 0, duration |-> 0, loop |-> FALSE]
    /\ attacks = [started |-> FALSE, need |-> 0, elapsed |-> 0]

(***************************************************************************)
(* Helpers on sequences and dicts.                                         *)
(***************************************************************************)
Range(s) == {s[i] : i \in DOMAIN s}

SeqsUpTo(S, n) == UNION {[1..k -> S] : k \in 0..n}

\* dict[k] = v on a dict modelled as a function.
DictPut(d, k, v) == [x \in DOMAIN d \cup {k} |-> IF x = k THEN v ELSE d[x]]
\* dict.pop(k)
DictDel(d, k) == [x \in DOMAIN d \ {k} |-> d[x]]
EmptyDict == [x \in {} |-> "none"]

Registered(ents) == {ents[i].id : i \in DOMAIN ents}
IndexOf(ents, e) == CHOOSE i \in DOMAIN ents : ents[i].id = e
\* EntityDict.__getitem__ on a registered entity.
CompDict(ents, e) == ents[IndexOf(ents, e)].comps

\* The outcome of an operation: the exception it raised ("" when it returned)
\* and the value it returned.
Ok(v) == [exc |-> "", val |-> v]
Raise(x) == [exc |-> x, val |-> <<>>]


(***************************************************************************)
(* The state the Scene operations work on, threaded through them as a      *)
(* record S = [entities, components, backref].                              *)
(***************************************************************************)
Scene == [entities |-> entities, components |-> components, backref |-> backref]

\* defaultdict(set).__getitem__: the set under T, created empty when missing.
DefaultGet(comps, T) == IF T \in DOMAIN comps THEN comps[T] ELSE {}
\* The defaultdict after the keys Ts have been looked up.
Touch(comps, Ts) == [T \in DOMAIN comps \cup Ts |-> DefaultGet(comps, T)]

\* A store that keeps the component already under the type (dict.setdefault).
EntityPut_KeepFirst(ents, e, c) ==
    [i \in DOMAIN ents |->
        IF ents[i].id = e /\ TypeOf(c) \notin DOMAIN ents[i].comps
        THEN [ents[i] EXCEPT !.comps = DictPut(ents[i].comps, TypeOf(c), c)]
        ELSE ents[i]]

\* self._entities[entity][type(component)] = component
EntityPut(ents, e, c) ==
    [i \in DOMAIN ents |->
        IF ents[i].id = e
        THEN [ents[i] EXCEPT !.comps = DictPut(ents[i].comps, TypeOf(c), c)]
        ELSE ents[i]]

\* self._components[type(component)].add(entity)
IndexAdd(comps, T, e) == DictPut(comps, T, DefaultGet(comps, T) \cup {e})

\* A del_component that forgets the type index.
IndexRemove_Forget(comps, T, e) == comps

\* self._components[comp_cls].remove(entity)
IndexRemove(comps, T, e) == DictPut(comps, T, DefaultGet(comps, T) \ {e})

\* Whether the deferred-init hook of c raises: it looks its siblings up with
\* scene.get_component(self.entity, cls), which raises MissingComponent.
HookRaises(ents, e, c) == ~(Needs(TypeOf(c)) \subseteq DOMAIN CompDict(ents, e))

\* Component.init_entity: bind the back-references, then run the hook.
init_entity(S, e, c) ==
    LET S1 == [S EXCEPT !.backref[c] = [bound |-> TRUE, entity |-> e]]
    IN  [S |-> S1,
         exc |-> IF HookRaises(S1.entities, e, c) THEN "MissingComponent" ELSE ""]

\* An attach that registers an entity it does not find.
AttachOne_AutoRegister(S, e, c) ==
    LET ents == IF e \in Registered(S.entities)
                THEN S.entities
                ELSE Append(S.entities, [id |-> e, comps |-> EmptyDict])
    IN  init_entity([S EXCEPT !.entities = EntityPut(ents, e, c),
                              !.components = IndexAdd(S.components, TypeOf(c), e)],
                    e, c)

\* One turn of the loop of create_entity / add_components, and the body of
\* add_component: store the component, index it, initialise it.
AttachOne(S, e, c) ==
    IF e \notin Registered(S.entities)
    THEN [S |-> S, exc |-> "MissingEntity"]
    ELSE init_entity([S EXCEPT !.entities = EntityPut(S.entities, e, c),
                               !.components = IndexAdd(S.components, TypeOf(c), e)],
                     e, c)

RECURSIVE AttachAll(_, _, _)
AttachAll(S, e, cs) ==
    IF cs = <<>>
    THEN [S |-> S, exc |-> ""]
    ELSE LET r == AttachOne(S, e, Head(cs))
         IN  IF r.exc # "" THEN r ELSE AttachAll(r.S, e, Tail(cs))

\* self._entities[entity] = comp_dict = {}: a new key goes last, an existing
\* key keeps its place and loses its value.
EntityNew(ents, id) ==
    IF id \in Registered(ents)
    THEN [i \in DOMAIN ents |->
            IF ents[i].id = id THEN [id |-> id, comps |-> EmptyDict] ELSE ents[i]]
    ELSE Append(ents, [id |-> id, comps |-> EmptyDict])

\* Scene.create_entity with the identifier Entity() returned.
create_entity(S, id, cs) ==
    LET r == AttachAll([S EXCEPT !.entities = EntityNew(S.entities, id)], id, cs)
    IN  [S |-> r.S, out |-> IF r.exc # "" THEN Raise(r.exc) ELSE Ok(id)]

\* Scene.add_component
add_component(S, e, c) ==
    LET r == AttachOne(S, e, c)
    IN  [S |-> r.S, out |-> IF r.exc # "" THEN Raise(r.exc) ELSE Ok(<<>>)]

\* Scene.add_components
add_components(S, e, cs) ==
    LET r == AttachAll(S, e, cs)
    IN  [S |-> r.S, out |-> IF r.exc # "" THEN Raise(r.exc) ELSE Ok(<<>>)]

\* A del_entity that leaves the type index alone.
DelEntityIndex_Forget(comps, d, e) == comps

\* The type index after the loop of del_entity.
DelEntityIndex(comps, d, e) ==
    [T \in DOMAIN comps \cup DOMAIN d |->
        IF T \in DOMAIN d THEN DefaultGet(comps, T) \ {e} ELSE comps[T]]

\* del self._entities[entity]
EntityDel(ents, e) == SelectSeq(ents, LAMBDA r : r.id # e)

\* Scene.del_entity.  set.remove raises KeyError for a missing member; that
\* needs an entity missing from the type index of a type it holds.
del_entity(S, e) ==
    IF e \notin Registered(S.entities)
    THEN [S |-> S, out |-> Raise("MissingEntity")]
    ELSE LET d == CompDict(S.entities, e)
         IN  IF \E T \in DOMAIN d : e \notin DefaultGet(S.components, T)
             THEN [S |-> [S EXCEPT !.components = Touch(S.components, DOMAIN d)],
                   out |-> Raise("KeyError")]
             ELSE [S |-> [S EXCEPT !.components = DelEntityIndex(S.components, d, e),
                                   !.entities = EntityDel(S.entities, e)],
                   out |-> Ok(<<>>)]

\* A pop that empties the entity's dict.
EntityPop_Clear(ents, e, T) ==
    [i \in DOMAIN ents |->
        IF ents[i].id = e THEN [ents[i] EXCEPT !.comps = EmptyDict] ELSE ents[i]]

\* self._entities[entity].pop(comp_cls)
EntityPop(ents, e, T) ==
    [i \in DOMAIN ents |->
        IF ents[i].id = e
        THEN [ents[i] EXCEPT !.comps = DictDel(ents[i].comps, T)]
        ELSE ents[i]]

\* A del_component that takes a missing entity or component for done.
del_component_Lenient(S, e, T) ==
    IF e \in Registered(S.entities) /\ T \in DOMAIN CompDict(S.entities, e)
    THEN [S |-> [S EXCEPT !.entities = EntityPop(S.entities, e, T),
                          !.components = IndexRemove(S.components, T, e),
                          !.backref[CompDict(S.entities, e)[T]].entity = NoEntity],
          out |-> Ok(<<>>)]
    ELSE [S |-> [S EXCEPT !.components = Touch(S.components, {T})], out |-> Ok(<<>>)]

\* Scene.del_component
del_component(S, e, T) ==
    IF e \notin Registered(S.entities)
    THEN [S |-> S, out |-> Raise("MissingEntity")]
    ELSE IF T \notin DOMAIN CompDict(S.entities, e)
    THEN [S |-> S, out |-> Raise("MissingComponent")]
    ELSE LET c == CompDict(S.entities, e)[T]
         IN  IF e \notin DefaultGet(S.components, T)
             THEN [S |-> [S EXCEPT !.entities = EntityPop(S.entities, e, T),
                                   !.components = Touch(S.components, {T})],
                   out |-> Raise("KeyError")]
             ELSE [S |-> [S EXCEPT !.entities = EntityPop(S.entities, e, T),
                                   !.components = IndexRemove(S.components, T, e),
                                   !.backref[c].entity = NoEntity],
                   out |-> Ok(<<>>)]


(***************************************************************************)
(* The queries.  Each gives its outcome; the ones that look a type up in   *)
(* the defaultdict also leave its key behind (Touch).                      *)
(***************************************************************************)
NoneVal == "None"

\* An intersection that stops at the first type.
Intersection_First(comps, ts) == DefaultGet(comps, ts[1])

\* set.intersection(*map(self._components.__getitem__, comp_classes))
RECURSIVE Intersection(_, _)
Intersection(comps, ts) ==
    IF Len(ts) = 1
    THEN DefaultGet(comps, ts[1])
    ELSE DefaultGet(comps, ts[1]) \cap Intersection(comps, Tail(ts))

\* The generator expression (entity_dict[comp_cls] for comp_cls in
\* comp_classes), consumed while entity_dict is bound to d.
ConsumeComps(d, ts) ==
    IF \A i \in DOMAIN ts : ts[i] \in DOMAIN d
    THEN [comps |-> [i \in DOMAIN ts |-> d[ts[i]]], exc |-> ""]
    ELSE [comps |-> <<>>, exc |-> "KeyError"]

\* The dict the name entity_dict is bound to when the component generator of
\* the pair yielded at position i is consumed: at once ("unpack", as in
\* `for e, (a, b) in scene.get_entities_with(A, B)`), it is the dict of that
\* entity; after the outer generator has been run to its end ("collect", as
\* in `list(scene.get_entities_with(A, B))`), it is the last dict of the
\* loop over self._entities.items().
BoundDict(ents, i, mode) ==
    IF mode = "unpack" THEN ents[i].comps ELSE ents[Len(ents)].comps

\* A get_entities_with over a plain dict: a type without a key is a KeyError.
get_entities_with_PlainDict(S, ts, mode) ==
    IF ts = <<>>
    THEN Ok(<<>>)
    ELSE IF \E i \in DOMAIN ts : ts[i] \notin DOMAIN S.components
    THEN Raise("KeyError")
    ELSE LET found == Intersection(S.components, ts)
             hits == SelectSeq([i \in DOMAIN S.entities |-> i],
                               LAMBDA i : S.entities[i].id \in found)
         IN  Ok([k \in DOMAIN hits |->
                   LET r == ConsumeComps(BoundDict(S.entities, hits[k], mode), ts)
                   IN  [e |-> S.entities[hits[k]].id, comps |-> r.comps, exc |-> r.exc]])

\* Scene.get_entities_with, consumed in the given mode: the sequence of
\* [e, comps, exc], one per pair yielded.
get_entities_with(S, ts, mode) ==
    IF ts = <<>>
    THEN Ok(<<>>)
    ELSE LET found == Intersection(S.components, ts)
             hits == SelectSeq([i \in DOMAIN S.entities |-> i],
                               LAMBDA i : S.entities[i].id \in found)
         IN  Ok([k \in DOMAIN hits |->
                   LET r == ConsumeComps(BoundDict(S.entities, hits[k], mode), ts)
                   IN  [e |-> S.entities[hits[k]].id, comps |-> r.comps, exc |-> r.exc]])

\* Scene.has_component
has_component(S, e, T) ==
    IF e \notin Registered(S.entities)
    THEN Raise("MissingEntity")
    ELSE Ok(T \in DOMAIN CompDict(S.entities, e))

\* A has_components over a plain dict: a type without a key is a KeyError.
has_components_PlainDict(S, e, ts) ==
    IF \E i \in DOMAIN ts : ts[i] \notin DOMAIN S.components
    THEN Raise("KeyError")
    ELSE Ok(IF ts = <<>> THEN FALSE ELSE e \in Intersection(S.components, ts))

\* Scene.has_components
has_components(S, e, ts) ==
    Ok(IF ts = <<>> THEN FALSE ELSE e \in Intersection(S.components, ts))

\* A get_component that reads the entity index as a plain dict of dicts.
get_component_PlainDict(S, e, T) ==
    IF e \in Registered(S.entities) /\ T \in DOMAIN CompDict(S.entities, e)
    THEN Ok(CompDict(S.entities, e)[T])
    ELSE [exc |-> "MissingComponent", val |-> <<T>>]

\* A get_component that looks for an instance of the class (isinstance).
get_component_IsInstance(S, e, T) ==
    IF e \notin Registered(S.entities)
    THEN Raise("MissingEntity")
    ELSE LET d == CompDict(S.entities, e)
             found == {T2 \in DOMAIN d : IsInstance(d[T2], T)}
         IN  IF found = {}
             THEN [exc |-> "MissingComponent", val |-> <<T>>]
             ELSE Ok(d[CHOOSE T2 \in found : TRUE])

\* Scene.get_component
get_component(S, e, T) ==
    IF e \notin Registered(S.entities)
    THEN Raise("MissingEntity")
    ELSE IF T \notin DOMAIN CompDict(S.entities, e)
    THEN [exc |-> "MissingComponent", val |-> <<T>>]
    ELSE Ok(CompDict(S.entities, e)[T])

\* A get_components that leaves the missing types out of its list.
get_components_Partial(S, e, ts) ==
    IF e \notin Registered(S.entities)
    THEN Raise("MissingEntity")
    ELSE LET d == CompDict(S.entities, e)
             present == SelectSeq(ts, LAMBDA T : T \in DOMAIN d)
         IN  Ok([i \in DOMAIN present |-> d[present[i]]])

\* Scene.get_components
get_components(S, e, ts) ==
    IF e \notin Registered(S.entities)
    THEN Raise("MissingEntity")
    ELSE LET d == CompDict(S.entities, e)
             missing == {i \in DOMAIN ts : ts[i] \notin DOMAIN d}
         IN  IF missing # {}
             THEN [exc |-> "MissingComponent",
                   val |-> <<ts[CHOOSE i \in missing : \A j \in missing : i <= j]>>]
             ELSE Ok([i \in DOMAIN ts |-> d[ts[i]]])

\* A try_component without the except clause.
try_component_NoExcept(S, e, T) == get_component(S, e, T)

\* Scene.try_component: MissingEntity is no KeyError and passes the except.
try_component(S, e, T) ==
    IF e \notin Registered(S.entities)
    THEN Raise("MissingEntity")
    ELSE IF T \notin DOMAIN CompDict(S.entities, e)
    THEN Ok(NoneVal)
    ELSE Ok(CompDict(S.entities, e)[T])

\* Scene.try_components
try_components(S, e, ts) ==
    IF e \notin Registered(S.entities)
    THEN Raise("MissingEntity")
    ELSE LET d == CompDict(S.entities, e)
         IN  Ok([i \in DOMAIN ts |-> IF ts[i] \in DOMAIN d THEN d[ts[i]] ELSE NoneVal])

\* Scene.get_entities, consumed: the keys of the entity index in order.
get_entities(S) == Ok([i \in DOMAIN S.entities |-> S.entities[i].id])

\* Scene.get_components_from, consumed to its end or to the error it raises
\* (val: the components yielded until then).
get_components_from(S, es, T) ==
    LET bad == {i \in DOMAIN es : ~(/\ es[i] \in Registered(S.entities)
                                    /\ T \in DOMAIN CompDict(S.entities, es[i]))}
        stop == IF bad = {} THEN Len(es) + 1
                ELSE CHOOSE i \in bad : \A j \in bad : i <= j
    IN  [exc |-> IF bad = {} THEN ""
                 ELSE IF es[stop] \notin Registered(S.entities) THEN "MissingEntity"
                 ELSE "MissingComponent",
         val |-> [i \in 1..(stop - 1) |-> CompDict(S.entities, es[i])[T]]]

\* The entities next(iter(self._components[comp_cls])) can yield: any member
\* of the set (a set has no order to rely on); none when the set is empty.
FirstOf(comps, T) == DefaultGet(comps, T)

\* Scene.get_single_component, when next(iter(...)) yields e (any value
\* when the set is empty, where next raises StopIteration).  The lookup in
\* the defaultdict leaves the key of T behind.
get_single_component(S, T, e) ==
    LET S1 == [S EXCEPT !.components = Touch(S.components, {T})]
    IN  IF FirstOf(S.components, T) = {}
        THEN [S |-> S1, out |-> Raise("StopIteration")]
        ELSE IF e \notin Registered(S.entities)
        THEN [S |-> S1, out |-> Raise("MissingEntity")]
        ELSE IF T \notin DOMAIN CompDict(S.entities, e)
        THEN [S |-> S1, out |-> Raise("KeyError")]
        ELSE [S |-> S1, out |-> Ok(CompDict(S.entities, e)[T])]

(***************************************************************************)
(* The schedule: Scene._systems and Scene._priorities, threaded through    *)
(* the operations as a record D = [systems, priorities].                   *)
(***************************************************************************)
Sched == [systems |-> systems, priorities |-> priorities]

\* An insertion that appends instead of searching for the place.
BisectRight_Append(a, p, lo, hi) == hi

\* bisect.bisect_right(a, p, key=itemgetter(0)) between lo and hi (0-based).
RECURSIVE BisectRight(_, _, _, _)
BisectRight(a, p, lo, hi) ==
    IF lo >= hi
    THEN lo
    ELSE LET mid == (lo + hi) \div 2
         IN  IF p < a[mid + 1].prio
             THEN BisectRight(a, p, lo, mid)
             ELSE BisectRight(a, p, mid + 1, hi)

\* list.insert(k, x), k 0-based.
InsertAt(a, k, x) == SubSeq(a, 1, k) \o <<x>> \o SubSeq(a, k + 1, Len(a))

\* An insort that appends.
insort_Append(a, p, cls) == Append(a, [prio |-> p, bucket |-> <<cls>>])

\* bisect.insort(self._systems, (priority, {type(system): system}), key=itemgetter(0))
insort(a, p, cls) ==
    InsertAt(a, BisectRight(a, p, 0, Len(a)), [prio |-> p, bucket |-> <<cls>>])

\* system_dict[type(system)] = system: a key already there keeps its place.
BucketPut(b, cls) == IF cls \in Range(b) THEN b ELSE Append(b, cls)

\* The body shared by add_system and the loop of add_systems.
Schedule(D, cls, p) ==
    IF p \notin D.priorities
    THEN [D |-> [systems |-> insort(D.systems, p, cls),
                 priorities |-> D.priorities \cup {p}],
          exc |-> ""]
    ELSE IF \A i \in DOMAIN D.systems : D.systems[i].prio # p
    THEN [D |-> D, exc |-> "StopIteration"]
    ELSE LET k == CHOOSE i \in DOMAIN D.systems :
                    /\ D.systems[i].prio = p
                    /\ \A j \in DOMAIN D.systems : D.systems[j].prio = p => i <= j
         IN  [D |-> [D EXCEPT !.systems[k].bucket = BucketPut(@, cls)], exc |-> ""]

\* Scene.add_system
add_system(D, cls, p) == Schedule(D, cls, p)

\* The priority an add_systems item is scheduled at: its own when it gives
\* one, else whatever the local variable priority holds from the items
\* before (NoPrio: nothing yet).
ItemPriority(item, prev) == IF item.prio # NoPrio THEN item.prio ELSE prev

\* Scene.add_systems: the loop, with the local variable priority as prev.
RECURSIVE AddSystemsLoop(_, _, _)
AddSystemsLoop(D, items, prev) ==
    IF items = <<>>
    THEN [D |-> D, exc |-> ""]
    ELSE LET p == ItemPriority(Head(items), prev)
         IN  IF p = NoPrio
             THEN [D |-> D, exc |-> "UnboundLocalError"]
             ELSE LET r == Schedule(D, Head(items).cls, p)
                  IN  IF r.exc # "" THEN r ELSE AddSystemsLoop(r.D, Tail(items), p)

add_systems(D, items) == AddSystemsLoop(D, items, NoPrio)

\* self._systems[priority]: the 1-based position a Python list index names,
\* 0 when it is out of range (IndexError).
ListIndex(a, k) ==
    IF 0 <= k /\ k < Len(a) THEN k + 1
    ELSE IF k < 0 /\ -k <= Len(a) THEN Len(a) + k + 1
    ELSE 0

\* A del_system that takes a missing system for removed, and removes a
\* system from the first bucket that holds it.
del_system_Discard(D, cls) ==
    LET holders == {i \in DOMAIN D.systems : cls \in Range(D.systems[i].bucket)}
    IN  IF holders = {}
        THEN [D |-> D, exc |-> ""]
        ELSE LET first == CHOOSE i \in holders : \A j \in holders : i <= j
             IN  [D |-> [D EXCEPT !.systems[first].bucket =
                            SelectSeq(@, LAMBDA x : x # cls)],
                  exc |-> ""]

\* Scene.del_system
del_system(D, cls) ==
    LET holders == {i \in DOMAIN D.systems : cls \in Range(D.systems[i].bucket)}
    IN  IF holders = {}
        THEN [D |-> D, exc |-> "MissingSystem"]
        ELSE LET first == CHOOSE i \in holders : \A j \in holders : i <= j
                 priority == D.systems[first].prio
                 k == ListIndex(D.systems, priority)
             IN  IF k = 0
                 THEN [D |-> D, exc |-> "IndexError"]
                 ELSE IF cls \notin Range(D.systems[k].bucket)
                 THEN [D |-> D, exc |-> "KeyError"]
                 ELSE [D |-> [D EXCEPT !.systems[k].bucket =
                                  SelectSeq(@, LAMBDA x : x # cls)],
                       exc |-> ""]

\* chain.from_iterable(systems[1].values() for systems in reversed(self._systems))
RECURSIVE UpdateOrder(_)
UpdateOrder(a) ==
    IF a = <<>>
    THEN <<>>
    ELSE LET b == a[Len(a)]
         IN  [i \in DOMAIN b.bucket |-> [prio |-> b.prio, cls |-> b.bucket[i]]]
             \o UpdateOrder(SubSeq(a, 1, Len(a) - 1))

\* An update that goes on to the remaining systems after one has raised.
update_Continue(a, failAt) ==
    [calls |-> UpdateOrder(a), exc |-> IF failAt = 0 THEN "" ELSE "Error", ran |-> TRUE]

\* An update that invokes no system.
update_Idle(a, failAt) == [calls |-> <<>>, exc |-> "", ran |-> TRUE]

\* Scene.update when the failAt-th system invoked raises (0: none does).
update(a, failAt) ==
    IF failAt = 0
    THEN [calls |-> UpdateOrder(a), exc |-> "", ran |-> TRUE]
    ELSE [calls |-> SubSeq(UpdateOrder(a), 1, failAt), exc |-> "Error", ran |-> TRUE]

NoTrace == [calls |-> <<>>, exc |-> "", ran |-> FALSE]


(***************************************************************************)
(* The Singleton metaclass.  The state its __call__ works on is threaded   *)
(* through it as a record R = [instances, made, attr].  An instance is     *)
(* named by its class and its rank among the instances constructed for     *)
(* that class; a reference is the name of the instance it points to.       *)
(***************************************************************************)
\* The classes whose metaclass is Singleton: the systems and WindowComponent.
SingletonClasses == SystemClasses \cup {"WindowComponent"}
\* The most instances of one class the model lets be constructed.
MaxMade == 2
\* Attribute values are 0..MaxVal.
MaxVal == 2
AttrVals == 0..MaxVal
NoInst == [cls |-> "", n |-> 0]
NoCall == [op |-> "", cls |-> "", exc |-> "", ref |-> NoInst, val |-> 0]

Registry == [instances |-> instances, made |-> made, attr |-> attr]

\* super().__call__(*args, **kwargs): type.__call__ builds a new instance and
\* runs its __init__ with the arguments (here the attribute's first value), or
\* raises (System() itself is abstract: TypeError) and builds nothing.
Construct(R, cls, v, fails) ==
    IF fails
    THEN [R |-> R, out |-> Raise("TypeError")]
    ELSE LET inst == [cls |-> cls, n |-> R.made[cls] + 1]
         IN  [R |-> [R EXCEPT !.made[cls] = @ + 1, !.attr = DictPut(@, inst, v)],
              out |-> Ok(inst)]

\* A __call__ that does not consult the cache.
Singleton_call_NoCache(R, cls, v, fails) ==
    LET c == Construct(R, cls, v, fails)
    IN  IF c.out.exc # ""
        THEN c
        ELSE [R |-> [c.R EXCEPT !.instances = DictPut(@, cls, c.out.val)],
              out |-> c.out]

\* Singleton.__call__(cls, *args, **kwargs).
Singleton_call(R, cls, v, fails) ==
    IF cls \notin DOMAIN R.instances
    THEN LET c == Construct(R, cls, v, fails)
         IN  IF c.out.exc # ""
             THEN c
             ELSE LET R2 == [c.R EXCEPT !.instances = DictPut(@, cls, c.out.val)]
                  IN  [R |-> R2, out |-> Ok(R2.instances[cls])]
    ELSE [R |-> R, out |-> Ok(R.instances[cls])]

(***************************************************************************)
(* The initial state and the actions on entities and components.  The      *)
(* queries that only read (has_component, get_component(s),                *)
(* try_component(s)) change no state and are the operators above; the      *)
(* ones that look types up in the defaultdict are actions too.             *)
(***************************************************************************)
Init ==
    /\ entities = <<>>
    /\ components = EmptyDict
    /\ backref = [c \in Comps |-> [bound |-> FALSE, entity |-> NoEntity]]
    /\ issued = {}
    /\ systems = <<>>
    /\ priorities = {}
    /\ trace = NoTrace
    /\ instances = EmptyDict
    /\ made = [cls \in SingletonClasses |-> 0]
    /\ attr = EmptyDict
    /\ held = {}
    /\ lastCall = NoCall
    /\ value = [c \in MoveComps |-> 0]
    /\ origin = 0
    /\ ticks = 0
    /\ NoPlayer

\* Entity(): a uuid4 value, taken to differ from every one issued before;
\* the values are named 1, 2, .. in the order they are issued.
FreshIds == {id \in EntityIds \ issued : \A other \in EntityIds \ issued : id <= other}

\* The entities del_entity has removed.
Deleted == issued \ Registered(entities)

TypeLists == SeqsUpTo(CompClasses, MaxArgs)
CompLists == SeqsUpTo(Comps, MaxArgs)
Modes == {"unpack", "collect"}

SetScene(S) ==
    /\ entities' = S.entities
    /\ components' = S.components
    /\ backref' = S.backref

CreateEntity ==
    \E id \in FreshIds, cs \in CompLists :
        /\ SetScene(create_entity(Scene, id, cs).S)
        /\ issued' = issued \cup {id}
        /\ UNCHANGED <<schedVars, singletonVars, moveVars, gameVars>>

AddComponent ==
    \E e \in EntityIds, c \in Comps :
        /\ SetScene(add_component(Scene, e, c).S)
        /\ UNCHANGED <<issued, schedVars, singletonVars, moveVars, gameVars>>

AddComponents ==
    \E e \in EntityIds, cs \in CompLists :
        /\ SetScene(add_components(Scene, e, cs).S)
        /\ UNCHANGED <<issued, schedVars, singletonVars, moveVars, gameVars>>

DelComponent ==
    \E e \in EntityIds, T \in CompClasses :
        /\ SetScene(del_component(Scene, e, T).S)
        /\ UNCHANGED <<issued, schedVars, singletonVars, moveVars, gameVars>>

DelEntity ==
    \E e \in EntityIds :
        /\ SetScene(del_entity(Scene, e).S)
        /\ UNCHANGED <<issued, schedVars, singletonVars, moveVars, gameVars>>

GetEntitiesWith ==
    \E ts \in TypeLists :
        /\ components' = Touch(components, Range(ts))
        /\ UNCHANGED <<entities, backref, issued, schedVars, singletonVars, moveVars, gameVars>>

HasComponents ==
    \E ts \in TypeLists :
        /\ components' = Touch(components, Range(ts))
        /\ UNCHANGED <<entities, backref, issued, schedVars, singletonVars, moveVars, gameVars>>

GetSingleComponent ==
    \E T \in CompClasses :
        \E e \in IF FirstOf(components, T) = {} THEN {NoEntity} ELSE FirstOf(components, T) :
            /\ components' = get_single_component(Scene, T, e).S.components
            /\ UNCHANGED <<entities, backref, issued, schedVars, singletonVars, moveVars, gameVars>>

Next ==
    \/ CreateEntity
    \/ AddComponent
    \/ AddComponents
    \/ DelComponent
    \/ DelEntity
    \/ GetEntitiesWith
    \/ HasComponents
    \/ GetSingleComponent

Spec == Init /\ [][Next]_vars

\* The behaviours that only create entities and attach components.
AttachNext ==
    \/ CreateEntity
    \/ AddComponent
    \/ AddComponents

AttachSpec == Init /\ [][AttachNext]_vars


(***************************************************************************)
(* The actions on the schedule.                                            *)
(***************************************************************************)
\* An add_systems item: (system, priority) or (system,).
Items == [cls : SystemClasses, prio : Priorities \cup {NoPrio}]
ItemLists == SeqsUpTo(Items, MaxArgs)

SetSched(D) ==
    /\ systems' = D.systems
    /\ priorities' = D.priorities
    /\ trace' = NoTrace

AddSystem ==
    \E cls \in SystemClasses, p \in Priorities :
        /\ SetSched(add_system(Sched, cls, p).D)
        /\ UNCHANGED <<sceneVars, singletonVars, moveVars, gameVars>>

AddSystems ==
    \E items \in ItemLists :
        /\ SetSched(add_systems(Sched, items).D)
        /\ UNCHANGED <<sceneVars, singletonVars, moveVars, gameVars>>

DelSystem ==
    \E cls \in SystemClasses :
        /\ SetSched(del_system(Sched, cls).D)
        /\ UNCHANGED <<sceneVars, singletonVars, moveVars, gameVars>>

Update ==
    \E failAt \in 0..Len(UpdateOrder(systems)) :
        /\ trace' = update(systems, failAt)
        /\ UNCHANGED <<sceneVars, systems, priorities, singletonVars, moveVars, gameVars>>

SchedNext ==
    \/ AddSystem
    \/ AddSystems
    \/ DelSystem
    \/ Update

SchedSpec == Init /\ [][SchedNext]_vars


(***************************************************************************)
(* The actions on Singleton classes: a construction call, and an           *)
(* assignment to the attribute of an instance through a reference the      *)
(* program holds.                                                          *)
(***************************************************************************)
ConstructCall ==
    \E cls \in SingletonClasses, v \in AttrVals, fails \in BOOLEAN :
        /\ made[cls] < MaxMade
        /\ LET r == Singleton_call(Registry, cls, v, fails)
               returned == r.out.exc = ""
           IN  /\ instances' = r.R.instances
               /\ made' = r.R.made
               /\ attr' = r.R.attr
               /\ held' = IF returned THEN held \cup {r.out.val} ELSE held
               /\ lastCall' = [op |-> "call", cls |-> cls, exc |-> r.out.exc,
                               ref |-> IF returned THEN r.out.val ELSE NoInst,
                               val |-> v]
        /\ UNCHANGED <<sceneVars, schedVars, moveVars, gameVars>>

SetAttr ==
    \E ref \in held, v \in AttrVals :
        /\ attr' = [attr EXCEPT ![ref] = v]
        /\ lastCall' = [op |-> "set", cls |-> ref.cls, exc |-> "", ref |-> ref, val |-> v]
        /\ UNCHANGED <<instances, made, held, sceneVars, schedVars, moveVars, gameVars>>

SingletonNext ==
    \/ ConstructCall
    \/ SetAttr

SingletonSpec == Init /\ [][SingletonNext]_vars


(***************************************************************************)
(* The movement scenario: a Scene with one entity holding a Position and   *)
(* a Velocity component and one scheduled system, Movement, whose update   *)
(* adds the Velocity to the Position of every entity that holds both:      *)
(*     for e, (pos, vel) in scene.get_entities_with(Position, Velocity):   *)
(*         pos.value += vel.value                                          *)
(* The Scene and its update are those above; the values are Python         *)
(* integers, which do not overflow.                                        *)
(***************************************************************************)
\* The most Scene.update calls the scenario makes.
MaxTicks == 4
\* The Position and the Velocity start in -MaxSpeed..MaxSpeed.
MaxSpeed == 2
MoveVals == (-MaxSpeed)..MaxSpeed

\* Scene(), then create_entity(p1, v1) and add_system(Movement()).
EmptyScene ==
    [entities |-> <<>>,
     components |-> EmptyDict,
     backref |-> [c \in Comps \cup MoveComps |-> [bound |-> FALSE, entity |-> NoEntity]]]
MoveScene == create_entity(EmptyScene, 1, <<"p1", "v1">>).S
MoveSched == add_system([systems |-> <<>>, priorities |-> {}], "Movement", 0).D

\* The loop of Movement.update over the pairs the query yields, each
\* unpacked as it is drawn.
RECURSIVE AddVelocities(_, _)
AddVelocities(vals, pairs) ==
    IF pairs = <<>>
    THEN vals
    ELSE LET pos == Head(pairs).comps[1]
             vel == Head(pairs).comps[2]
         IN  AddVelocities([vals EXCEPT ![pos] = @ + vals[vel]], Tail(pairs))

\* Movement.update(scene)
MovementUpdate(S, vals) ==
    AddVelocities(vals, get_entities_with(S, <<"Position", "Velocity">>, "unpack").val)

\* The loop of Scene.update over the systems it invokes.
RECURSIVE RunSystems(_, _, _)
RunSystems(S, vals, calls) ==
    IF calls = <<>>
    THEN vals
    ELSE RunSystems(S,
                    IF Head(calls).cls = "Movement" THEN MovementUpdate(S, vals) ELSE vals,
                    Tail(calls))

MoveInit ==
    /\ entities = MoveScene.entities
    /\ components = MoveScene.components
    /\ backref = MoveScene.backref
    /\ issued = {1}
    /\ systems = MoveSched.systems
    /\ priorities = MoveSched.priorities
    /\ trace = NoTrace
    /\ instances = EmptyDict
    /\ made = [cls \in SingletonClasses |-> 0]
    /\ attr = EmptyDict
    /\ held = {}
    /\ lastCall = NoCall
    /\ origin \in MoveVals
    /\ \E v \in MoveVals : value = [c \in MoveComps |-> IF c = "p1" THEN origin ELSE v]
    /\ ticks = 0
    /\ NoPlayer

\* One Scene.update call of the scenario.
Tick ==
    /\ ticks < MaxTicks
    /\ trace' = update(systems, 0)
    /\ value' = RunSystems(Scene, value, trace'.calls)
    /\ ticks' = ticks + 1
    /\ UNCHANGED <<sceneVars, systems, priorities, singletonVars, origin, gameVars>>

MoveNext == Tick

MoveSpec == MoveInit /\ [][MoveNext]_vars


(***************************************************************************)
(* Entities that hold a component of a subclass: a PlayerComponent, whose  *)
(* class derives from EventComponent, next to the components of the other  *)
(* classes.                                                                *)
(***************************************************************************)
SubInit ==
    /\ entities = <<>>
    /\ components = EmptyDict
    /\ backref = [c \in Comps \cup SubComps |-> [bound |-> FALSE, entity |-> NoEntity]]
    /\ issued = {}
    /\ systems = <<>>
    /\ priorities = {}
    /\ trace = NoTrace
    /\ instances = EmptyDict
    /\ made = [cls \in SingletonClasses |-> 0]
    /\ attr = EmptyDict
    /\ held = {}
    /\ lastCall = NoCall
    /\ value = [c \in MoveComps |-> 0]
    /\ origin = 0
    /\ ticks = 0
    /\ NoPlayer

AddSubComponent ==
    \E e \in EntityIds, c \in SubComps :
        /\ SetScene(add_component(Scene, e, c).S)
        /\ UNCHANGED <<issued, schedVars, singletonVars, moveVars, gameVars>>

DelSubComponent ==
    \E e \in EntityIds, c \in SubComps :
        /\ SetScene(del_component(Scene, e, TypeOf(c)).S)
        /\ UNCHANGED <<issued, schedVars, singletonVars, moveVars, gameVars>>

SubNext ==
    \/ CreateEntity
    \/ AddSubComponent
    \/ DelSubComponent

SubSpec == SubInit /\ [][SubNext]_vars


(***************************************************************************)
(* Properties of the entity and type indexes (checked under Spec).  A      *)
(* property of a call's outcome is stated in every reachable state for     *)
(* every call that state admits: the operator of the call gives its        *)
(* outcome and the scene it leaves, and the action of the call applies it. *)
(***************************************************************************)
Types(cs) == [i \in DOMAIN cs |-> TypeOf(cs[i])]
Holds(ents, e, T) == e \in Registered(ents) /\ T \in DOMAIN CompDict(ents, e)
Holders(ents, ts) == {e \in Registered(ents) : \A i \in DOMAIN ts : Holds(ents, e, ts[i])}

\* C1: index referential integrity.  For every entity e and component type
\* T, T is a key of the entity index entry of e exactly when e is registered
\* and e is in the type index's entity set for T.
C1_IndexIntegrity ==
    \A e \in EntityIds, T \in CompClasses :
        Holds(entities, e, T)
            <=> (e \in Registered(entities) /\ e \in DefaultGet(components, T))

\* An entity has been deleted, components have been detached, and a
\* registered entity still holds components of every type.
C1_Witness ==
    /\ Deleted # {}
    /\ \E e \in Registered(entities) : DOMAIN CompDict(entities, e) = CompClasses
    /\ \E c \in Comps : backref[c].bound /\ backref[c].entity = NoEntity

\* C4 (as claimed): once del_entity(e) has removed e, every operation given
\* e fails with MissingEntity and no get_entities_with result holds e.
C4_DeletedEntityFails ==
    \A e \in Deleted :
        /\ \A T \in CompClasses :
              /\ get_component(Scene, e, T).exc = "MissingEntity"
              /\ try_component(Scene, e, T).exc = "MissingEntity"
              /\ has_component(Scene, e, T).exc = "MissingEntity"
              /\ del_component(Scene, e, T).out.exc = "MissingEntity"
        /\ \A ts \in TypeLists :
              /\ get_components(Scene, e, ts).exc = "MissingEntity"
              /\ try_components(Scene, e, ts).exc = "MissingEntity"
              /\ has_components(Scene, e, ts).exc = "MissingEntity"
              /\ \A mode \in Modes :
                    LET r == get_entities_with(Scene, ts, mode)
                    IN  \A k \in DOMAIN r.val : r.val[k].e # e
        /\ \A c \in Comps : add_component(Scene, e, c).out.exc = "MissingEntity"
        /\ \A cs \in CompLists : add_components(Scene, e, cs).out.exc = "MissingEntity"
        /\ del_entity(Scene, e).out.exc = "MissingEntity"

\* C5: for every non-empty list of types, get_entities_with yields exactly
\* the registered entities that hold a component of every listed type, each
\* of them once.
C5_YieldsExactlyHolders ==
    \A ts \in TypeLists \ {<<>>}, mode \in Modes :
        LET r == get_entities_with(Scene, ts, mode)
        IN  /\ r.exc = ""
            /\ {r.val[k].e : k \in DOMAIN r.val} = Holders(entities, ts)
            /\ \A j, k \in DOMAIN r.val : r.val[j].e = r.val[k].e => j = k

\* Two registered entities, of which a two-type query yields one only.
C5_Witness ==
    /\ Cardinality(Registered(entities)) >= 2
    /\ \E ts \in TypeLists :
          /\ Len(ts) = 2 /\ ts[1] # ts[2]
          /\ Len(get_entities_with(Scene, ts, "unpack").val) = 1
          /\ Holders(entities, <<ts[1]>>) = Registered(entities)

\* C6 (as claimed): the component sequence paired with a yielded entity e
\* has one element per requested type, the i-th being the component of the
\* i-th type attached to e.
C6_ComponentsInRequestOrder ==
    \A ts \in TypeLists \ {<<>>}, mode \in Modes :
        LET r == get_entities_with(Scene, ts, mode)
        IN  \A k \in DOMAIN r.val :
                /\ r.val[k].exc = ""
                /\ Len(r.val[k].comps) = Len(ts)
                /\ \A i \in DOMAIN ts :
                      /\ Holds(entities, r.val[k].e, ts[i])
                      /\ r.val[k].comps[i] = CompDict(entities, r.val[k].e)[ts[i]]

\* The component of type T given last to create_entity(cs).
LastOfType(cs, T) ==
    cs[CHOOSE i \in DOMAIN cs :
          /\ TypeOf(cs[i]) = T
          /\ \A j \in DOMAIN cs : TypeOf(cs[j]) = T => j <= i]

\* C7 (as claimed): get_components(e, type(c1), .., type(cn)) on the entity
\* that create_entity(c1, .., cn) returned gives exactly [c1, .., cn].
C7_CreateThenGetAll ==
    \A id \in FreshIds, cs \in CompLists :
        LET r == create_entity(Scene, id, cs)
        IN  r.out.exc = "" => get_components(r.S, r.out.val, Types(cs)) = Ok(cs)

\* C7 (amended): get_components gives, at each position, the component of
\* that position's type given last; that is [c1, .., cn] itself when the
\* components have pairwise different concrete types.
C7_CreateThenGetLastOfType ==
    \A id \in FreshIds, cs \in CompLists :
        LET r == create_entity(Scene, id, cs)
            distinct == \A i, j \in DOMAIN cs : TypeOf(cs[i]) = TypeOf(cs[j]) => i = j
        IN  r.out.exc = "" =>
                /\ get_components(r.S, r.out.val, Types(cs))
                      = Ok([i \in DOMAIN cs |-> LastOfType(cs, TypeOf(cs[i]))])
                /\ distinct => get_components(r.S, r.out.val, Types(cs)) = Ok(cs)

\* An entity created with components of two types is registered, and a
\* further entity can be created.
C7_Witness ==
    /\ FreshIds # {}
    /\ \E e \in Registered(entities) :
          get_components(Scene, e, <<"Sprite", "Anim">>) = Ok(<<"s1", "a1">>)
    /\ create_entity(Scene, CHOOSE id \in FreshIds : TRUE, <<"s2", "a1">>).out.exc = ""

\* The components of type T attached to e.
Attached(ents, e, T) ==
    IF Holds(ents, e, T) THEN {CompDict(ents, e)[T]} ELSE {}

\* Entity e2 is registered with the same components under type T2 in both.
SameUnder(ents1, ents2, e2, T2) ==
    /\ e2 \in Registered(ents1) <=> e2 \in Registered(ents2)
    /\ Attached(ents1, e2, T2) = Attached(ents2, e2, T2)

\* The scenes agree on everything but the components of type T on entity e.
SameButFor(S1, S2, e, T) ==
    \A e2 \in EntityIds, T2 \in CompClasses :
        (e2 # e \/ T2 # T) => SameUnder(S1.entities, S2.entities, e2, T2)

\* C12: add_component(e, c) on a registered entity e leaves c attached under
\* type(c) in place of whatever was there: get_component(e, type(c)) then
\* returns c, e holds exactly one component of type(c), and the components of
\* every other type on e and of every other entity are what they were.
C12_AddComponentReplaces ==
    \A e \in Registered(entities), c \in Comps :
        LET r == add_component(Scene, e, c)
        IN  /\ get_component(r.S, e, TypeOf(c)) = Ok(c)
            /\ Attached(r.S.entities, e, TypeOf(c)) = {c}
            /\ Cardinality({i \in DOMAIN r.S.entities : r.S.entities[i].id = e}) = 1
            /\ SameButFor(Scene, r.S, e, TypeOf(c))

\* An entity holds s2 where it held s1 (s1 still points back at it), next to
\* an Anim component that stayed, while another entity holds components too.
C12_Witness ==
    \E e \in Registered(entities) :
        /\ Attached(entities, e, "Sprite") = {"s2"}
        /\ Attached(entities, e, "Anim") = {"a1"}
        /\ backref["s1"] = [bound |-> TRUE, entity |-> e]
        /\ \E e2 \in Registered(entities) \ {e} : DOMAIN CompDict(entities, e2) # {}

C14_GetComponentOutcomes ==
    /\ \A e \in EntityIds, T \in CompClasses :
          LET r == get_component(Scene, e, T)
          IN  /\ e \notin Registered(entities) => r.exc = "MissingEntity"
              /\ (e \in Registered(entities) /\ Attached(entities, e, T) = {}) =>
                    r.exc = "MissingComponent"
              /\ Attached(entities, e, T) # {} =>
                    /\ r.exc = ""
                    /\ Attached(entities, e, T) = {r.val}
                    /\ TypeOf(r.val) = T
    /\ \A e \in Registered(entities), T \in CompClasses :
          /\ Holds(entities, e, T) =>
                get_component(del_component(Scene, e, T).S, e, T).exc = "MissingComponent"
          /\ get_component(del_entity(Scene, e).S, e, T).exc = "MissingEntity"

\* One entity holds a Sprite and no Anim, and another has been deleted: the
\* three outcomes of get_component are all there.
C14_Witness ==
    \E e \in Registered(entities), e2 \in Deleted :
        /\ get_component(Scene, e, "Sprite") = Ok("s2")
        /\ get_component(Scene, e, "Anim").exc = "MissingComponent"
        /\ get_component(Scene, e2, "Sprite").exc = "MissingEntity"

\* The element try_components gives for type T on entity e.
ComponentOrNone(ents, e, T) ==
    IF Holds(ents, e, T) THEN CompDict(ents, e)[T] ELSE NoneVal

\* C15: for a registered entity e, try_component(e, T) returns None when no
\* component of type T is attached to e (and the component when one is), and
\* try_components(e, T1, .., Tk) returns a list of length k holding at
\* position i the attached component of type Ti, or None when there is none.
C15_TryReturnsNone ==
    \A e \in Registered(entities) :
        /\ \A T \in CompClasses :
              try_component(Scene, e, T) = Ok(ComponentOrNone(entities, e, T))
        /\ \A ts \in TypeLists :
              LET r == try_components(Scene, e, ts)
              IN  /\ r.exc = ""
                  /\ Len(r.val) = Len(ts)
                  /\ \A i \in 1..Len(ts) : r.val[i] = ComponentOrNone(entities, e, ts[i])

\* An entity holding a Sprite and no Anim: None stands at the Anim position.
C15_Witness ==
    \E e \in Registered(entities) :
        /\ try_component(Scene, e, "Anim") = Ok(NoneVal)
        /\ try_components(Scene, e, <<"Anim", "Sprite">>) = Ok(<<NoneVal, "s1">>)

\* The positions of the request whose type is not attached to e.
MissingAt(ents, e, ts) == {i \in DOMAIN ts : ~Holds(ents, e, ts[i])}

\* C16: get_components(e, T1, .., Tk) on a registered entity e is all or
\* nothing: when some Ti is not attached to e it raises MissingComponent naming
\* the first such type in request order and returns no list; otherwise it
\* returns the k components in request order.
C16_GetComponentsAllOrNothing ==
    \A e \in Registered(entities), ts \in TypeLists :
        LET r == get_components(Scene, e, ts)
            missing == MissingAt(entities, e, ts)
        IN  IF missing # {}
            THEN /\ r.exc = "MissingComponent"
                 /\ \E i \in missing :
                      /\ \A j \in missing : i <= j
                      /\ r.val = <<ts[i]>>
            ELSE /\ r.exc = ""
                 /\ Len(r.val) = Len(ts)
                 /\ \A i \in 1..Len(ts) : Attached(entities, e, ts[i]) = {r.val[i]}

\* One entity holds nothing, so a request names its first type, Anim; one
\* holds a Sprite only, so a request for Sprite then Anim names Anim; one
\* request is answered in full.
C16_Witness ==
    \E e \in Registered(entities), e2 \in Registered(entities) :
        /\ get_components(Scene, e, <<"Anim", "Sprite">>) =
              [exc |-> "MissingComponent", val |-> <<"Anim">>]
        /\ get_components(Scene, e, <<"Sprite", "Anim">>) =
              [exc |-> "MissingComponent", val |-> <<"Sprite">>]
        /\ get_components(Scene, e2, <<"Sprite", "Anim">>) =
              [exc |-> "MissingComponent", val |-> <<"Anim">>]
        /\ get_components(Scene, e2, <<"Sprite", "Sprite">>) = Ok(<<"s1", "s1">>)


\* C17: for a registered entity e and any list of types T1, .., Tk, k >= 0,
\* has_components(e, T1, .., Tk) returns True exactly when e holds a component
\* of every listed type: it equals the conjunction of has_component(e, Ti).
C17_HasComponentsIsConjunction ==
    \A e \in Registered(entities), ts \in TypeLists :
        has_components(Scene, e, ts) =
            Ok(\A i \in DOMAIN ts : has_component(Scene, e, ts[i]) = Ok(TRUE))


\* C18: del_component(e, T) on an entity e holding a component c of type T
\* returns, detaches c and sets c's entity back-reference to None: afterwards
\* has_component(e, T) and has_components(e, T) are False, e is still
\* registered, and the components of every other type on e and of every other
\* entity are what they were.
C18_DelComponentDetaches ==
    \A e \in Registered(entities), T \in CompClasses :
        Holds(entities, e, T) =>
            LET c == CompDict(entities, e)[T]
                r == del_component(Scene, e, T)
            IN  /\ r.out = Ok(<<>>)
                /\ has_component(r.S, e, T) = Ok(FALSE)
                /\ has_components(r.S, e, <<T>>) = Ok(FALSE)
                /\ e \in Registered(r.S.entities)
                /\ r.S.backref[c].entity = NoEntity
                /\ SameButFor(Scene, r.S, e, T)

\* An entity is registered with an Anim component and no Sprite, a Sprite
\* component is bound with its entity back-reference cleared, and another
\* entity holds a Sprite.
C18_Witness ==
    \E e \in Registered(entities), e2 \in Registered(entities), c \in Comps :
        /\ TypeOf(c) = "Sprite"
        /\ backref[c] = [bound |-> TRUE, entity |-> NoEntity]
        /\ DOMAIN CompDict(entities, e) = {"Anim"}
        /\ "Sprite" \in DOMAIN components /\ components["Sprite"] = {e2}

\* C19: del_component(e, T) raises MissingComponent when e is registered and
\* holds no component of type T, and MissingEntity when e is not registered;
\* either way the entity index, the type index and the back-references are
\* as they were.
C19_DelComponentFailures ==
    \A e \in EntityIds, T \in CompClasses :
        /\ (e \in Registered(entities) /\ ~Holds(entities, e, T)) =>
              del_component(Scene, e, T) = [S |-> Scene, out |-> Raise("MissingComponent")]
        /\ e \notin Registered(entities) =>
              del_component(Scene, e, T) = [S |-> Scene, out |-> Raise("MissingEntity")]

\* An entity holds a Sprite and no Anim, Anim has no key in the type index,
\* and another entity has been deleted: both failures can be had.
C19_Witness ==
    \E e \in Registered(entities), e2 \in Deleted :
        /\ DOMAIN CompDict(entities, e) = {"Sprite"}
        /\ "Anim" \notin DOMAIN components
        /\ del_component(Scene, e, "Anim").out.exc = "MissingComponent"
        /\ del_component(Scene, e2, "Sprite").out.exc = "MissingEntity"

\* C20: del_entity(e) on a registered entity e returns, and afterwards e is in
\* neither the entity index nor the entity set of any component type, while
\* every other entity is registered as before, with the components it had and
\* in the entity sets it was in.
C20_DelEntityRemoves ==
    \A e \in Registered(entities) :
        LET r == del_entity(Scene, e)
        IN  /\ r.out = Ok(<<>>)
            /\ e \notin Registered(r.S.entities)
            /\ \A T \in CompClasses : e \notin DefaultGet(r.S.components, T)
            /\ \A e2 \in EntityIds \ {e}, T \in CompClasses :
                  /\ SameUnder(entities, r.S.entities, e2, T)
                  /\ e2 \in DefaultGet(r.S.components, T) <=> e2 \in DefaultGet(components, T)

\* An entity that held a Sprite and an Anim has been deleted (both still
\* point back at it); the other entity is registered and holds a Sprite.
C20_Witness ==
    \E e \in Deleted, e2 \in Registered(entities) :
        /\ backref["a1"] = [bound |-> TRUE, entity |-> e]
        /\ backref["s1"] = [bound |-> TRUE, entity |-> e]
        /\ components = [T \in CompClasses |-> IF T = "Sprite" THEN {e2} ELSE {}]
        /\ Attached(entities, e2, "Sprite") = {"s2"}


\* C21: del_entity(e) detaches every component of e with its back-reference
\* cleared, as del_component does: after del_entity(e) has returned, no
\* component instance has e as its entity back-reference.
C21_DelEntityClearsBackrefs ==
    \A e \in Registered(entities) :
        LET r == del_entity(Scene, e)
        IN  r.out.exc = "" => \A c \in Comps : r.S.backref[c].entity # e


\* C23: get_single_component(T) raises the typed error MissingComponent when
\* no entity of the Scene holds a component of type T, whether T was never
\* attached or every holder of T has been deleted or has lost T.
C23_GetSingleComponentMissing ==
    \A T \in CompClasses :
        (\A e \in Registered(entities) : ~Holds(entities, e, T)) =>
            \A e \in EntityIds \cup {NoEntity} :
                get_single_component(Scene, T, e).out.exc = "MissingComponent"


\* C24: in create_entity(c1, .., cn) every component is attached to the new
\* entity before any hook runs, so the hook of each ci finds every sibling cj
\* it looks up, whether cj comes before or after ci: a call whose components
\* include the siblings each hook needs returns the entity.
C24_HooksSeeAllSiblings ==
    \A id \in FreshIds, cs \in CompLists :
        (\A i \in DOMAIN cs : Needs(TypeOf(cs[i])) \subseteq Range(Types(cs))) =>
            create_entity(Scene, id, cs).out = Ok(id)


\* C25: after any sequence of create_entity, add_component and add_components
\* calls, a component instance attached more than once included, every
\* component found in the entity index under an entity e has its scene
\* back-reference bound and its entity back-reference equal to e.
C25_BackReferences ==
    \A e \in Registered(entities) :
        \A T \in DOMAIN CompDict(entities, e) :
            backref[CompDict(entities, e)[T]] = [bound |-> TRUE, entity |-> e]


\* The scene a query leaves that looked the types Ts up in the defaultdict
\* (get_entities_with, has_components).
AfterLookup(S, Ts) == [S EXCEPT !.components = Touch(S.components, Ts)]

EntityLists == SeqsUpTo(EntityIds, MaxArgs)

\* What the queries that read the entity index alone return on scene S, for
\* every argument.
EntityAnswers(S) ==
    [get_entities |-> get_entities(S),
     get_components_from |->
        [es \in EntityLists |-> [T \in CompClasses |-> get_components_from(S, es, T)]],
     has_component |->
        [e \in EntityIds |-> [T \in CompClasses |-> has_component(S, e, T)]],
     get_component |->
        [e \in EntityIds |-> [T \in CompClasses |-> get_component(S, e, T)]],
     get_components |->
        [e \in EntityIds |-> [ts \in TypeLists |-> get_components(S, e, ts)]],
     try_component |->
        [e \in EntityIds |-> [T \in CompClasses |-> try_component(S, e, T)]],
     try_components |->
        [e \in EntityIds |-> [ts \in TypeLists |-> try_components(S, e, ts)]]]

\* What the queries that read the type index return on scene S, for every
\* argument.
IndexAnswers(S) ==
    [get_entities_with |->
        [ts \in TypeLists |-> [mode \in Modes |-> get_entities_with(S, ts, mode)]],
     has_components |->
        [e \in EntityIds |-> [ts \in TypeLists |-> has_components(S, e, ts)]],
     get_single_component |->
        [T \in CompClasses |->
            {get_single_component(S, T, e).out :
                e \in IF FirstOf(S.components, T) = {} THEN {NoEntity}
                      ELSE FirstOf(S.components, T)}]]

\* C30: the queries are read-only.  Whatever a query returns or raises, and
\* also for a type no entity has ever held, the scene it leaves has the same
\* entities registered with the same components, and every query answers on
\* it what it answered before.  (get_entities, get_components_from,
\* has_component, get_component(s) and try_component(s) write nothing at all;
\* the others look types up in the defaultdict, get_single_component the one
\* type it is given.  The answers read from the entity index are compared
\* on the scene with every type looked up.)
C30_QueriesReadOnly ==
    /\ LET before == IndexAnswers(Scene)
       IN  \A Ts \in SUBSET CompClasses \ {{}} :
              /\ AfterLookup(Scene, Ts).entities = entities
              /\ IndexAnswers(AfterLookup(Scene, Ts)) = before
    /\ EntityAnswers(AfterLookup(Scene, CompClasses)) = EntityAnswers(Scene)
    /\ \A T \in CompClasses, e \in EntityIds \cup {NoEntity} :
          get_single_component(Scene, T, e).S = AfterLookup(Scene, {T})

\* The type index has a key for Anim with no entity under it though no Anim
\* component was ever attached (a1 is unbound): a query left it there, next
\* to an entity holding a Sprite and a deleted entity.
C30_Witness ==
    /\ "Anim" \in DOMAIN components /\ components["Anim"] = {}
    /\ ~backref["a1"].bound
    /\ \E e \in Registered(entities) : Holds(entities, e, "Sprite")
    /\ Deleted # {}


\* C31: get_entities_with called with no component types, or with a list
\* holding a type that no entity holds now (a type never attached, or one
\* whose holders have all lost it or been deleted), yields no entity and
\* raises no error, however the pairs are consumed.
C31_EmptyQueryYieldsNothing ==
    \A ts \in TypeLists, mode \in Modes :
        (\/ ts = <<>>
         \/ \E i \in DOMAIN ts : \A e \in Registered(entities) : ~Holds(entities, e, ts[i])) =>
            get_entities_with(Scene, ts, mode) = Ok(<<>>)

\* An entity holds a Sprite, Anim has no key in the type index, and another
\* entity has been deleted: a query for Sprite yields, one for Sprite and
\* Anim yields nothing.
C31_Witness ==
    /\ \E e \in Registered(entities) : Holds(entities, e, "Sprite")
    /\ "Anim" \notin DOMAIN components
    /\ Deleted # {}
    /\ get_entities_with(Scene, <<"Sprite">>, "unpack") # Ok(<<>>)
    /\ get_entities_with(Scene, <<"Sprite", "Anim">>, "unpack") = Ok(<<>>)


\* Every class a query can name: the concrete classes and their bases.
AllClasses ==
    CompClasses \cup {TypeOf(c) : c \in SubComps} \cup UNION {Bases(TypeOf(c)) : c \in SubComps}

\* C32: components are indexed by their exact concrete type.  For an entity e
\* holding a component whose concrete type Sub is a subclass of Base, and no
\* component of concrete type Base, get_component(e, Base) raises
\* MissingComponent, has_component(e, Base) is False and
\* get_entities_with(Base) does not yield e (while the same queries for Sub
\* find the component).
C32_ExactConcreteType ==
    \A e \in Registered(entities), Sub \in AllClasses, Base \in AllClasses :
        (Holds(entities, e, Sub) /\ Base \in Bases(Sub) /\ ~Holds(entities, e, Base)) =>
            /\ get_component(Scene, e, Base).exc = "MissingComponent"
            /\ has_component(Scene, e, Base) = Ok(FALSE)
            /\ has_components(Scene, e, <<Base>>) = Ok(FALSE)
            /\ \A mode \in Modes :
                  LET pairs == get_entities_with(Scene, <<Base>>, mode).val
                  IN  \A k \in DOMAIN pairs : pairs[k].e # e
            /\ get_component(Scene, e, Sub) = Ok(CompDict(entities, e)[Sub])
            /\ \E k \in DOMAIN get_entities_with(Scene, <<Sub>>, "unpack").val :
                  get_entities_with(Scene, <<Sub>>, "unpack").val[k].e = e

\* An entity holds the PlayerComponent next to a Sprite, and the other
\* entity had it before (and has lost it).
C32_Witness ==
    \E e \in Registered(entities), e2 \in Registered(entities) :
        /\ e # e2
        /\ DOMAIN CompDict(entities, e) = {"Sprite", "PlayerComponent"}
        /\ backref["pl1"] = [bound |-> TRUE, entity |-> e]
        /\ ~Holds(entities, e2, "PlayerComponent")
        /\ get_component(Scene, e, "EventComponent").exc = "MissingComponent"


(***************************************************************************)
(* Properties of the schedule (checked under SchedSpec).                   *)
(***************************************************************************)
\* The (priority, system) pairs scheduled in a bucket list.
Scheduled(a) ==
    UNION {{[prio |-> a[i].prio, cls |-> c] : c \in Range(a[i].bucket)} : i \in DOMAIN a}

\* The positions of a sequence that hold x, and those that name system cls.
Positions(calls, x) == {i \in DOMAIN calls : calls[i] = x}
CallsOf(calls, cls) == {i \in DOMAIN calls : calls[i].cls = cls}

\* C2: descending-priority execution.  In every Scene.update call, of two
\* scheduled systems with priorities p > q the one at q is never invoked
\* unless the one at p was invoked before it, and a call that ends without
\* an error has invoked both.
C2_DescendingPriority ==
    trace.ran =>
        \A x, y \in Scheduled(systems) :
            x.prio > y.prio =>
                /\ \A j \in Positions(trace.calls, y) :
                      \E i \in Positions(trace.calls, x) : i < j
                /\ trace.exc = "" =>
                      /\ Positions(trace.calls, x) # {}
                      /\ Positions(trace.calls, y) # {}

\* An update call has run systems of three priorities to its end.
C2_Witness ==
    /\ trace.ran /\ trace.exc = ""
    /\ {trace.calls[i].prio : i \in DOMAIN trace.calls} = Priorities
    /\ {trace.calls[i].cls : i \in DOMAIN trace.calls} = SystemClasses

\* C3 (as claimed): del_system(T) on a T that one bucket holds returns,
\* leaves T in no bucket, and leaves every other scheduled system at its
\* priority, whatever priorities are in use.
C3_DelSystemRemoves ==
    \A cls \in SystemClasses :
        Cardinality({x \in Scheduled(systems) : x.cls = cls}) = 1 =>
            LET r == del_system(Sched, cls)
            IN  /\ r.exc = ""
                /\ \A x \in Scheduled(r.D.systems) : x.cls # cls
                /\ \A x \in Scheduled(systems) :
                      x.cls # cls => x \in Scheduled(r.D.systems)

\* C8 (as claimed): add_systems schedules every item that gives no priority
\* at priority 0.
C8_DefaultPriorityZero ==
    \A items \in ItemLists :
        LET r == add_systems(Sched, items)
        IN  /\ r.exc = ""
            /\ \A i \in DOMAIN items :
                  items[i].prio = NoPrio =>
                      [prio |-> 0, cls |-> items[i].cls] \in Scheduled(r.D.systems)

\* C9 (as claimed): after add_system puts a system at a priority where its
\* type is already scheduled, an update call invokes that type once.
C9_ReAddRunsOnce ==
    \A cls \in SystemClasses, p \in Priorities :
        [prio |-> p, cls |-> cls] \in Scheduled(systems) =>
            LET r == add_system(Sched, cls, p)
            IN  /\ r.exc = ""
                /\ Cardinality(CallsOf(update(r.D.systems, 0).calls, cls)) = 1

\* C10 (as claimed): an update call that ends without an error has invoked
\* every scheduled system exactly once.
C10_EachSystemOnce ==
    (trace.ran /\ trace.exc = "") =>
        \A x \in Scheduled(systems) :
            Cardinality(CallsOf(trace.calls, x.cls)) = 1


(***************************************************************************)
(* Properties of the Singleton metaclass (checked under SingletonSpec).    *)
(***************************************************************************)
\* C11: every construction call for a Singleton class returns the instance the
\* first construction call for that class created, no second instance of the
\* class is ever constructed, and a value assigned through one returned
\* reference is the value read through every other reference to the class.
C11_SingletonIdentity ==
    /\ \A cls \in SingletonClasses : made[cls] <= 1
    /\ \A ref \in held :
          /\ ref = [cls |-> ref.cls, n |-> 1]
          /\ ref.cls \in DOMAIN instances /\ instances[ref.cls] = ref
    /\ (lastCall.op = "call" /\ lastCall.exc = "") =>
          lastCall.ref = [cls |-> lastCall.cls, n |-> 1]
    /\ lastCall.op = "set" =>
          \A other \in held : other.cls = lastCall.cls => attr[other] = lastCall.val

\* A construction call has returned an instance whose attribute is not the
\* value the call was given: the instance was constructed by an earlier call.
C11_Witness ==
    /\ lastCall.op = "call" /\ lastCall.exc = ""
    /\ attr[lastCall.ref] # lastCall.val
    /\ \E cls \in SingletonClasses \ {lastCall.cls} : cls \in DOMAIN instances

(***************************************************************************)
(* Further properties of the schedule (checked under SchedSpec).           *)
(***************************************************************************)
\* C22: del_system(T) raises MissingSystem when no bucket of the Scene holds a
\* system of type T, among others after an earlier del_system removed T, and
\* then leaves the bucket list and the priority set as they were.
C22_DelSystemMissing ==
    \A cls \in SystemClasses :
        (\A x \in Scheduled(systems) : x.cls # cls) =>
            del_system(Sched, cls) = [D |-> Sched, exc |-> "MissingSystem"]

\* S1 has been removed (its bucket is still there, empty) while S2 is
\* scheduled: removing S1 again raises MissingSystem.
C22_Witness ==
    /\ \E i \in DOMAIN systems : systems[i].bucket = <<>>
    /\ \E x \in Scheduled(systems) : x.cls = "S2"
    /\ del_system(Sched, "S1").exc = "MissingSystem"

(***************************************************************************)
(* Properties of the movement scenario (checked under MoveSpec).           *)
(***************************************************************************)
\* C27: with one entity holding integer Position and Velocity components and
\* one scheduled system that adds the Velocity to the Position on each
\* update, after N calls of Scene.update the Position is the initial Position
\* plus N times the Velocity, for every N >= 0.
C27_PositionAfterTicks ==
    /\ value["p1"] = origin + ticks * value["v1"]
    /\ trace.ran => Len(trace.calls) = 1

\* Three updates have moved the Position from 1 to -5 at Velocity -2.
C27_Witness ==
    /\ ticks = 3
    /\ origin = 1
    /\ value = [c \in MoveComps |-> IF c = "p1" THEN -5 ELSE -2]

(***************************************************************************)
(* Properties of the schedule's structure and of a failing update          *)
(* (checked under SchedSpec).                                              *)
(***************************************************************************)
\* C28: after any sequence of add_system, add_systems and del_system calls the
\* bucket list is strictly ascending by priority, so no priority has two
\* buckets, and the priorities the Scene records are exactly the priorities
\* of the buckets in the list.
C28_ScheduleStructure ==
    /\ \A i, j \in DOMAIN systems : i < j => systems[i].prio < systems[j].prio
    /\ priorities = {systems[i].prio : i \in DOMAIN systems}

\* Three buckets, entered out of order (the bucket of 0 holds two systems, so
\* it came before one of the others), one of them emptied by del_system.
C28_Witness ==
    /\ Len(systems) = 3
    /\ priorities = {-1, 0, 2}
    /\ \E i \in DOMAIN systems : systems[i].bucket = <<>>
    /\ \E i \in DOMAIN systems : Len(systems[i].bucket) = 2

\* The system a Scene.update call invokes first: the first system of the
\* bucket of highest priority among the buckets that hold one.
HighestFirst(a) ==
    LET nonEmpty == {i \in DOMAIN a : a[i].bucket # <<>>}
        top == CHOOSE i \in nonEmpty : \A j \in nonEmpty : a[j].prio <= a[i].prio
    IN  [prio |-> a[top].prio, cls |-> a[top].bucket[1]]

\* A Scene.update call in which the k-th system invoked raises stops there:
\* it raises, having invoked the first k systems of a full call and nothing
\* after the one that raised.
StopsAtFailure ==
    \A k \in 1..Len(UpdateOrder(systems)) :
        LET t == update(systems, k)
            full == update(systems, 0).calls
        IN  /\ t.exc # ""
            /\ Len(t.calls) = k
            /\ \A i \in 1..k : t.calls[i] = full[i]

\* The Scene.update call that follows one that raised, on the same schedule,
\* invokes the first system of the highest bucket first.
RestartsFromTop ==
    (trace.ran /\ trace.exc # "" /\ trace'.ran /\ systems' = systems) =>
        (trace'.calls # <<>> /\ trace'.calls[1] = HighestFirst(systems))

\* C29: when a system's update raises during Scene.update the error leaves
\* Scene.update at once: the failing system is not invoked again, no system
\* that would have run after it is invoked in that call, and the next
\* Scene.update call starts again from the bucket of highest priority.
C29_ErrorPropagates ==
    /\ [](StopsAtFailure /\ (trace.exc # "" => trace.calls # <<>>))
    /\ [][RestartsFromTop]_vars

\* An update call has raised in the second of three or more systems of
\* different priorities.
C29_Witness ==
    /\ trace.ran /\ trace.exc # ""
    /\ Len(trace.calls) = 2
    /\ Len(UpdateOrder(systems)) >= 3
    /\ trace.calls[1].prio > trace.calls[2].prio

(***************************************************************************)
(* The player of the game: the PlayerComponent's attack timers and held    *)
(* keys, the WeaponComponent that sets the attack's times, and the player's *)
(* AnimationComponent, under the KEYDOWN / KEYUP callbacks and the updates  *)
(* of PlayerSystem and AnimationSystem.  Positions, sprites and collisions  *)
(* are left out: they read the timers and the frame and write neither.      *)
(***************************************************************************)
MaxAttackTime == 2
MaxAttackCd == 2
MaxFrames == 2
MaxDuration == 1

\* The directions bound to keys, and the attack_time / attack_cd of a weapon.
Facings == {"down", "right"}
Keys == Facings \cup {"attack"}
Weapons == [attack_time : 0..MaxAttackTime, attack_cd : 0..MaxAttackCd]
MaxNeed == MaxAttackTime + MaxAttackCd

MOVE_MAP(f) == IF f = "right" THEN [axis |-> "x", by |-> 1] ELSE [axis |-> "y", by |-> 1]
SetAxis(v, axis, n) == IF axis = "x" THEN [v EXCEPT !.x = n] ELSE [v EXCEPT !.y = n]
Magnitude(v) == v.x * v.x + v.y * v.y
Last(s) == s[Len(s)]
Min(a, b) == IF a <= b THEN a ELSE b

\* list.remove: the list without the first occurrence of x.
ListRemove(s, x) ==
    LET i == CHOOSE k \in 1..Len(s) : s[k] = x /\ \A j \in 1..(k - 1) : s[j] # x
    IN  SubSeq(s, 1, i - 1) \o SubSeq(s, i + 1, Len(s))

\* The animations of the actor: idle, moving and attacking in each direction.
\* A name is <<kind, facing>>: facing.name, move_<facing>, atk_<facing>.
AnimNames == {"", "move", "atk"} \X Facings
anim_data(name) ==
    [loop |-> name[1] # "atk",
     frames |-> [i \in 1..(IF name[1] = "" THEN 1 ELSE MaxFrames) |->
                    [duration |-> IF i % 2 = 1 THEN MaxDuration ELSE 0]]]

\* AnimationComponent.__len__
len(A) == Len(anim_data(A.curr_anim).frames)

\* AnimationComponent.get_pos: takes loop and duration from the current frame.
\* An index past the frames raises IndexError and leaves both as they were.
get_pos(A) ==
    LET data == anim_data(A.curr_anim)
    IN  IF A.index < Len(data.frames)
        THEN [A EXCEPT !.loop = data.loop, !.duration = data.frames[A.index + 1].duration]
        ELSE A

\* A KEYDOWN callback that starts an attack whatever the cooldown.
on_key_pressed_NoCooldown(P, key) ==
    IF key \in Facings
    THEN [P EXCEPT !.facing = IF P.attacking <= 0 THEN key ELSE @,
                   !.move_stack = Append(@, key),
                   !.moving = SetAxis(@, MOVE_MAP(key).axis, MOVE_MAP(key).by)]
    ELSE IF key = "attack"
    THEN [P EXCEPT !.attacking = P.attack_time,
                   !.resting = P.attack_time + P.attack_cd]
    ELSE P

\* PlayerComponent.on_key_pressed
on_key_pressed(P, key) ==
    IF key \in Facings
    THEN [P EXCEPT !.facing = IF P.attacking <= 0 THEN key ELSE @,
                   !.move_stack = Append(@, key),
                   !.moving = SetAxis(@, MOVE_MAP(key).axis, MOVE_MAP(key).by)]
    ELSE IF key = "attack" /\ P.resting <= 0
    THEN [P EXCEPT !.attacking = P.attack_time,
                   !.resting = P.attack_time + P.attack_cd]
    ELSE P

\* PlayerComponent.on_key_released
on_key_released(P, key) ==
    IF key \in Facings
    THEN LET P1 == [P EXCEPT !.moving = SetAxis(@, MOVE_MAP(key).axis, 0),
                             !.move_stack = ListRemove(@, key)]
         IN  IF P1.move_stack # <<>>
             THEN [P1 EXCEPT !.facing = IF P1.attacking <= 0 THEN Last(P1.move_stack) ELSE @,
                             !.moving = SetAxis(@, MOVE_MAP(Last(P1.move_stack)).axis,
                                                MOVE_MAP(Last(P1.move_stack)).by)]
             ELSE P1
    ELSE P

\* WeaponComponent.apply_weapon
apply_weapon(P, w) == [P EXCEPT !.attack_time = w.attack_time, !.attack_cd = w.attack_cd]

\* PlayerSystem.update, on the PlayerComponent P and the AnimationComponent A.
PlayerSystem_update(P, A) ==
    LET atk == P.attacking > 0
        P1 == IF atk
              THEN [P EXCEPT !.attacking = @ - 1]
              ELSE [P EXCEPT !.facing = IF P.move_stack # <<>> THEN Last(P.move_stack) ELSE @]
        anim_name == IF atk THEN <<"atk", P.facing>>
                     ELSE IF Magnitude(P1.moving) > 0 THEN <<"move", P1.facing>>
                     ELSE <<"", P.facing>>
        P2 == [P1 EXCEPT !.resting = IF @ > 0 THEN @ - 1 ELSE @]
        A2 == IF A.curr_anim # anim_name
              THEN get_pos([A EXCEPT !.curr_anim = anim_name, !.index = 0])
              ELSE A
    IN  [player |-> P2, anim |-> A2]

\* An AnimationSystem.update that steps to the next index without wrapping.
AnimationSystem_update_NoWrap(A) ==
    IF A.duration > 0
    THEN [A EXCEPT !.duration = @ - 1]
    ELSE get_pos([A EXCEPT !.index = @ + 1])

\* AnimationSystem.update, on one AnimationComponent.
AnimationSystem_update(A) ==
    IF A.duration > 0
    THEN [A EXCEPT !.duration = @ - 1]
    ELSE LET n == len(A)
             A1 == IF A.loop \/ A.index < n - 1
                   THEN [A EXCEPT !.index = (@ + 1) % n]
                   ELSE [A EXCEPT !.index = Min(@, n - 1)]
         IN  get_pos(A1)

\* The game as set up: the player created, the weapon applied to it, the
\* animation at the first frame of the first animation of its data.
GameInit ==
    /\ entities = <<>>
    /\ components = EmptyDict
    /\ backref = [c \in Comps |-> [bound |-> FALSE, entity |-> NoEntity]]
    /\ issued = {}
    /\ systems = <<>>
    /\ priorities = {}
    /\ trace = NoTrace
    /\ instances = EmptyDict
    /\ made = [cls \in SingletonClasses |-> 0]
    /\ attr = EmptyDict
    /\ held = {}
    /\ lastCall = NoCall
    /\ value = [c \in MoveComps |-> 0]
    /\ origin = 0
    /\ ticks = 0
    /\ \E w \in Weapons :
          player = [attack_time |-> w.attack_time, attack_cd |-> w.attack_cd,
                    attacking |-> 0, resting |-> 0, facing |-> "down",
                    move_stack |-> <<>>, moving |-> [x |-> 0, y |-> 0]]
    /\ \E name \in AnimNames :
          anim = get_pos([curr_anim |-> name, index |-> 0, duration |-> 0, loop |-> FALSE])
    /\ attacks = [started |-> FALSE, need |-> 0, elapsed |-> 0]

\* A key goes down that was up: the player's KEYDOWN callback.  An attack
\* key that sets the timers (or finds none running) is noted as a start,
\* with the PlayerSystem updates its cooldown needs.
KeyDown ==
    \E key \in Keys :
        /\ key \in Facings => key \notin Range(player.move_stack)
        /\ player' = on_key_pressed(player, key)
        /\ attacks' = IF key = "attack" /\ (player' # player \/ player.resting <= 0)
                      THEN [started |-> TRUE, need |-> player'.resting, elapsed |-> 0]
                      ELSE attacks
        /\ UNCHANGED <<sceneVars, schedVars, singletonVars, moveVars, anim>>

\* A held direction key goes up: the player's KEYUP callback.
KeyUp ==
    \E key \in Facings :
        /\ key \in Range(player.move_stack)
        /\ player' = on_key_released(player, key)
        /\ UNCHANGED <<sceneVars, schedVars, singletonVars, moveVars, anim, attacks>>

\* WeaponComponent.on_key_pressed for the attack key: an attack that has just
\* started takes the weapon's times.
WeaponKeyDown ==
    \E w \in Weapons :
        /\ player.attacking = player.attack_time
        /\ player' = apply_weapon(player, w)
        /\ UNCHANGED <<sceneVars, schedVars, singletonVars, moveVars, anim, attacks>>

PlayerUpdate ==
    LET r == PlayerSystem_update(player, anim)
    IN  /\ player' = r.player
        /\ anim' = r.anim
        /\ attacks' = [attacks EXCEPT !.elapsed = Min(@ + 1, MaxNeed)]
        /\ UNCHANGED <<sceneVars, schedVars, singletonVars, moveVars>>

AnimationUpdate ==
    /\ anim' = AnimationSystem_update(anim)
    /\ UNCHANGED <<sceneVars, schedVars, singletonVars, moveVars, player, attacks>>

GameNext ==
    \/ KeyDown
    \/ KeyUp
    \/ WeaponKeyDown
    \/ PlayerUpdate
    \/ AnimationUpdate

GameSpec == GameInit /\ [][GameNext]_vars

\* C33: the attack cooldown.  A KEYDOWN attack event starts an attack
\* (attacking := attack_time, resting := attack_time + attack_cd) only when
\* resting <= 0; attacking <= resting in every state; and between two attack
\* starts at least the attack_time + attack_cd PlayerSystem updates of the
\* first one elapse.
AttackStart ==
    /\ player' = [player EXCEPT !.attacking = player.attack_time,
                                !.resting = player.attack_time + player.attack_cd]
    /\ player' # player
    /\ attacks'.elapsed = 0

C33_AttackCooldown ==
    /\ [](player.attacking <= player.resting)
    /\ [][AttackStart => player.resting <= 0]_vars
    /\ [][(AttackStart /\ attacks.started) => attacks.elapsed >= attacks.need]_vars

\* A second attack can start: one was started with a need of at least three
\* updates, and they have elapsed.
C33_Witness ==
    /\ attacks.started
    /\ attacks.need >= 3
    /\ attacks.elapsed >= attacks.need
    /\ player.resting = 0
    /\ player.attacking = 0

\* C34: the frame index stays within the current animation: 0 <= index <=
\* n - 1 for its n >= 1 frames, after any updates of AnimationSystem and
\* animation changes of PlayerSystem; an AnimationSystem update at the last
\* frame whose time is up takes a looping animation to index 0 and leaves a
\* non-looping one at n - 1, and only a change of animation takes a
\* non-looping one off its last frame.
AnimationTick == anim' = AnimationSystem_update(anim) /\ player' = player

C34_FrameIndexBounds ==
    /\ [](len(anim) >= 1 /\ 0 <= anim.index /\ anim.index <= len(anim) - 1)
    /\ [][(AnimationTick /\ anim.index = len(anim) - 1 /\ anim.duration = 0) =>
            anim'.index = IF anim_data(anim.curr_anim).loop THEN 0 ELSE len(anim) - 1]_vars
    /\ [][(anim.index = len(anim) - 1 /\ ~anim_data(anim.curr_anim).loop
              /\ anim'.curr_anim = anim.curr_anim) =>
            anim'.index = anim.index]_vars

\* A non-looping animation of more than one frame stands at its last frame
\* with the frame's time up.
C34_Witness ==
    /\ ~anim_data(anim.curr_anim).loop
    /\ len(anim) > 1
    /\ anim.index = len(anim) - 1
    /\ anim.duration = 0

=============================================================================
